---------------------------- MODULE Spec2Model ----------------------------
(***************************************************************************)
(* A model of JS/auth.js: the status message display (showMessage), the    *)
(* console mirror, the safeFetch wrapper, the button helper and the signup *)
(* and login submit handlers, run by the browser's event loop.             *)
(*                                                                         *)
(* Strings are sequences.  A field value typed by the user is a sequence   *)
(* of characters; a message text is a sequence of string parts, so that    *)
(* concatenation is \o.  The emoji that prefix the texts in the source are *)
(* written as ASCII tags ("(!) ", "(x) ", "(ok) ", "(i) ", "(t) ").        *)
(* An optional JSON field is <<>> when absent and <<v>> when present.      *)
(***************************************************************************)
EXTENDS Integers, Sequences, FiniteSets, TLC

VARIABLES
    elPresent,      \* document.getElementById("errorMessage") is not null
    el,             \* the status element: textContent, className, style.display
    showT,          \* showMessage._t: id of the last hide-timer (0: undefined)
    timers,         \* pending timers of the event loop: [id, kind, form]
    inShowMessage,  \* the console mirror's guard flag
    consoleCalls,   \* calls made to console.log / warn / error
    origLogs,       \* calls that reached originals.*.apply
    btn,            \* per form: the submit button's disabled flag and label
    container,      \* container.classList contains "active"
    storage,        \* localStorage: todo_token, todo_username (<<>>: no item)
    navigated,      \* window.location.href has been set to app.html
    h,              \* per form: the handler's position while it awaits
    last,           \* the last handler run that ended, and how
    events,         \* clicks, submit events and outside console calls so far
    submits,        \* submit events dispatched to the two handlers
    netCalls,       \* calls made to fetch
    inFlight        \* per form: calls to safeFetch that have not ended yet

vars == <<elPresent, el, showT, timers, inShowMessage, consoleCalls,
          origLogs, btn, container, storage, navigated, h, last,
          events, submits, netCalls, inFlight>>

-----------------------------------------------------------------------------
(* Bounds of the model. *)

MaxEvents == 2

(* Constants of the program. *)

HideDelay == 5000
FetchTimeout == 10000
NavDelay == 1200
MinPassword == 6

Forms == {"signup", "login"}

-----------------------------------------------------------------------------
(* String.prototype.trim, String.prototype.length *)

\* The characters trim strips: ECMAScript's WhiteSpace and LineTerminator.
\* A character is a string of length one; one that the module cannot hold
\* as such is written by its code point.
WhiteSpace ==
    { "\t", "U+000B", "\f", " ", "U+00A0", "U+FEFF",
      "U+1680", "U+2000", "U+2001", "U+2002", "U+2003", "U+2004", "U+2005",
      "U+2006", "U+2007", "U+2008", "U+2009", "U+200A", "U+202F", "U+205F",
      "U+3000" }

LineTerminator == { "\n", "\r", "U+2028", "U+2029" }

IsSpace(c) == c \in WhiteSpace \cup LineTerminator

RECURSIVE TrimLeft(_)
TrimLeft(s) ==
    IF s = <<>> THEN s
    ELSE IF IsSpace(Head(s)) THEN TrimLeft(Tail(s)) ELSE s

RECURSIVE TrimRight(_)
TrimRight(s) ==
    IF s = <<>> THEN s
    ELSE IF IsSpace(s[Len(s)]) THEN TrimRight(SubSeq(s, 1, Len(s) - 1)) ELSE s

Trim(s) == TrimRight(TrimLeft(s))

\* UTF-16 code units of one character: "E" stands for a character outside
\* the basic plane (an emoji), which takes a surrogate pair.
CodeUnits(c) == IF c = "E" THEN 2 ELSE 1

RECURSIVE JsLength(_)
JsLength(s) == IF s = <<>> THEN 0 ELSE CodeUnits(Head(s)) + JsLength(Tail(s))

-----------------------------------------------------------------------------
(* Texts of the program *)

MsgAllFields == <<"(!) All fields are required.">>
MsgPasswordShort == <<"(!) Password must be at least 6 characters.">>
MsgLoginRequired == <<"(!) Username and password are required.">>
MsgRegistered == <<"(ok) Registration successful! You can now log in.">>
MsgRegisterFailed == <<"(x) Registration failed. Try again.">>
MsgLoggedIn == <<"(ok) Login successful! Redirecting...">>
MsgLoginFailed == <<"(x) Login failed. Check credentials.">>
MsgNoToken == <<"(x) Login failed: No token received.">>
MsgTimedOut == <<"(t) Request timed out. Please try again.">>
MsgInvalidResponse == <<"Invalid server response">>
MsgFailedToFetch == <<"Failed to fetch">>
MsgAborted == <<"The user aborted a request.">>

IdleLabel(f) == IF f = "signup" THEN "Sign Up" ELSE "Sign In"
LoadingLabel == "<span class=spinner></span> Loading..."

StatusText(status) ==
    CASE status = 200 -> "200"
      [] status = 404 -> "404"
      [] status = 500 -> "500"

HttpMsg(status) == <<"HTTP ", StatusText(status)>>

\* Error objects: name and message.
Err(name, message) == [name |-> name, message |-> message]

\* String(err), as Error.prototype.toString gives it.
ErrToString(e) ==
    IF e.message = <<>> THEN <<e.name>> ELSE <<e.name, ": ">> \o e.message

\* The message of the TypeError thrown by reading a property of null.
NullReadMsg(prop) == <<"Cannot read properties of null (reading '", prop, "')">>

-----------------------------------------------------------------------------
(* The part of the page the synchronous helpers read and write, passed     *)
(* through them as one record so that their calls compose as in the code.  *)

World ==
    [el |-> el, showT |-> showT, timers |-> timers,
     inShowMessage |-> inShowMessage, consoleCalls |-> consoleCalls,
     origLogs |-> origLogs, btn |-> btn, container |-> container,
     storage |-> storage]

Commit(w) ==
    /\ el' = w.el
    /\ showT' = w.showT
    /\ timers' = w.timers
    /\ inShowMessage' = w.inShowMessage
    /\ consoleCalls' = w.consoleCalls
    /\ origLogs' = w.origLogs
    /\ btn' = w.btn
    /\ container' = w.container
    /\ storage' = w.storage

Timer(id, kind, form, delay) ==
    [id |-> id, kind |-> kind, form |-> form, delay |-> delay]

\* The id the next setTimeout returns.  Browsers count upwards; only the
\* identity of an id matters, so the model takes the least id that no
\* pending timer has and that nothing still refers to (showMessage._t, the
\* timeout timer of a call in flight).
IdsInUse(w) ==
    {t.id : t \in w.timers} \cup {w.showT} \cup {h[f].timer : f \in Forms}

NextId(w) ==
    CHOOSE n \in 1..(Cardinality(IdsInUse(w)) + 1) :
        /\ n \notin IdsInUse(w)
        /\ \A m \in 1..(n - 1) : m \in IdsInUse(w)

\* setTimeout: the timer becomes pending; its id is NextId(w).
SetTimeout(w, kind, form, delay) ==
    [w EXCEPT !.timers = @ \cup {Timer(NextId(w), kind, form, delay)}]

\* clearTimeout: a no-op for an id that is undefined or no longer pending.
ClearTimeout(w, id) ==
    [w EXCEPT !.timers = {t \in @ : t.id # id}]

-----------------------------------------------------------------------------
(* Message system *)

ClassName(type) ==
    IF type = "error" THEN "message error" ELSE "message success"

\* ShowMessage without the clearTimeout of the previous hide-timer.
ShowMessageNoClear(w, message, type) ==
    IF ~elPresent
    THEN w
    ELSE LET shown == [w EXCEPT !.el = [textContent |-> message,
                                        className |-> ClassName(type),
                                        display |-> "block"]]
             timed == SetTimeout(shown, "hide", "none", HideDelay)
         IN  [timed EXCEPT !.showT = NextId(shown)]

\* ShowMessage without the check that the status element exists.
ShowMessageNoCheck(w, message, type) ==
    LET shown == [w EXCEPT !.el = [textContent |-> message,
                                   className |-> ClassName(type),
                                   display |-> "block"]]
        cleared == ClearTimeout(shown, shown.showT)
        timed == SetTimeout(cleared, "hide", "none", HideDelay)
    IN  [timed EXCEPT !.showT = NextId(cleared)]

ShowMessage(w, message, type) ==
    IF ~elPresent
    THEN w
    ELSE LET shown == [w EXCEPT !.el = [textContent |-> message,
                                        className |-> ClassName(type),
                                        display |-> "block"]]
             cleared == ClearTimeout(shown, shown.showT)
             timed == SetTimeout(cleared, "hide", "none", HideDelay)
         IN  [timed EXCEPT !.showT = NextId(cleared)]

ShowError(w, msg) == ShowMessage(w, msg, "error")
ShowSuccess(w, msg) == ShowMessage(w, msg, "success")

-----------------------------------------------------------------------------
(* Console mirror.  An argument of a console call is its text and whether  *)
(* Array.prototype.join can convert it to a string: join throws a          *)
(* TypeError on a Symbol and on an object without toString.                *)

Arg(text, joinable) == [text |-> text, joinable |-> joinable]

CanJoin(args) == \A i \in 1..Len(args) : args[i].joinable

RECURSIVE Join(_, _)
Join(args, sep) ==
    IF args = <<>> THEN <<>>
    ELSE IF Len(args) = 1 THEN args[1].text
    ELSE args[1].text \o <<sep>> \o Join(Tail(args), sep)

SafeShowMessage(w, msg, type) ==
    IF w.inShowMessage
    THEN w
    ELSE LET entered == [w EXCEPT !.inShowMessage = TRUE]
             done == ShowMessage(entered, msg, type)
         IN  [done EXCEPT !.inShowMessage = FALSE]

MirrorPrefix(level) ==
    CASE level = "log" -> "(i) "
      [] level = "warn" -> "(!) "
      [] level = "error" -> "(x) "

MirrorType(level) == IF level = "log" THEN "success" ELSE "error"

\* console.log / console.warn / console.error as replaced by the mirror.
\* The call throws, before anything else happens, when join throws.
ConsoleThrows(args) == ~CanJoin(args)

Console(w, level, args) ==
    LET called == [w EXCEPT !.consoleCalls = @ + 1]
    IN  IF ConsoleThrows(args)
        THEN called
        ELSE LET mirrored == SafeShowMessage(called,
                                 <<MirrorPrefix(level)>> \o Join(args, " "),
                                 MirrorType(level))
             IN  [mirrored EXCEPT !.origLogs = @ + 1]

\* The argument an Error object makes in a console call.
ErrArg(e) == Arg(ErrToString(e), TRUE)

-----------------------------------------------------------------------------
(* Button loading helper *)

\* SetButtonLoading acting on the submit buttons of both forms.
SetButtonLoadingAll(w, f, loading, defaultText) ==
    IF loading
    THEN [w EXCEPT !.btn = [g \in Forms |->
                               [disabled |-> TRUE, label |-> LoadingLabel]]]
    ELSE [w EXCEPT !.btn = [g \in Forms |->
                               [disabled |-> FALSE, label |-> IdleLabel(g)]]]

SetButtonLoading(w, f, loading, defaultText) ==
    IF loading
    THEN [w EXCEPT !.btn[f] = [disabled |-> TRUE, label |-> LoadingLabel]]
    ELSE [w EXCEPT !.btn[f] = [disabled |-> FALSE, label |-> defaultText]]

-----------------------------------------------------------------------------
(* Responses.  A body is text that does not parse as JSON ("invalid"), the *)
(* JSON value null, another JSON value that is not an object ("prim": a    *)
(* number, a string, true), or an object with some of the fields message,  *)
(* error and token.                                                        *)

Body(kind, message, error, token) ==
    [kind |-> kind, message |-> message, error |-> error, token |-> token]

NoBody == Body("none", <<>>, <<>>, <<>>)


\* Response.ok
Ok(status) == status >= 200 /\ status <= 299

\* ToBoolean of an optional string field: undefined and "" are falsy.
Truthy(field) == field # <<>> /\ field[1] # ""

\* The result of a call: a returned value or a thrown error.
NoErr == Err("", <<>>)
Returned(body) == [kind |-> "value", value |-> body, err |-> NoErr]
Thrown(e) == [kind |-> "error", value |-> NoBody, err |-> e]
NoResult == [kind |-> "none", value |-> NoBody, err |-> NoErr]

-----------------------------------------------------------------------------
(* Safe fetch wrapper *)

\* The catch clause of safeFetch.
SafeFetchCatch(err) ==
    IF err.name = "AbortError" THEN Err("Error", MsgTimedOut) ELSE err

\* data.message || data.error || `HTTP ${res.status}`, for data not null
HttpErrorMessage(status, data) ==
    IF Truthy(data.message) THEN data.message
    ELSE IF Truthy(data.error) THEN data.error
    ELSE HttpMsg(status)

\* SafeFetchBody with the status consulted before the body is parsed.
SafeFetchBodyStatusFirst(status, body) ==
    IF ~Ok(status)
    THEN IF body.kind \in {"invalid", "null"}
         THEN Thrown(SafeFetchCatch(Err("Error", HttpMsg(status))))
         ELSE Thrown(SafeFetchCatch(Err("Error", HttpErrorMessage(status, body))))
    ELSE IF body.kind = "invalid"
    THEN Thrown(SafeFetchCatch(Err("Error", MsgInvalidResponse)))
    ELSE Returned(body)

\* safeFetch from the resolution of res.json() on: status is the status of
\* the response fetch resolved with, body what the body turned out to be.
SafeFetchBody(status, body) ==
    IF body.kind = "invalid"
    THEN Thrown(SafeFetchCatch(Err("Error", MsgInvalidResponse)))
    ELSE IF ~Ok(status)
    THEN IF body.kind = "null"
         THEN Thrown(SafeFetchCatch(Err("TypeError", NullReadMsg("message"))))
         ELSE Thrown(SafeFetchCatch(Err("Error", HttpErrorMessage(status, body))))
    ELSE Returned(body)

\* safeFetch when fetch rejects: err is the rejection.
SafeFetchRejected(err) == Thrown(SafeFetchCatch(err))

-----------------------------------------------------------------------------
(* Handlers: validation *)

\* ValidateSignup with the check of the email left out.
ValidateSignupNoEmail(username, email, password) ==
    IF username = <<>> \/ password = <<>>
    THEN MsgAllFields
    ELSE IF JsLength(password) < MinPassword
    THEN MsgPasswordShort
    ELSE <<>>

ValidateSignup(username, email, password) ==
    IF username = <<>> \/ email = <<>> \/ password = <<>>
    THEN MsgAllFields
    ELSE IF JsLength(password) < MinPassword
    THEN MsgPasswordShort
    ELSE <<>>

\* ValidateLogin with the check of the password left out.
ValidateLoginNoPassword(username, password) ==
    IF username = <<>> THEN MsgLoginRequired ELSE <<>>

ValidateLogin(username, password) ==
    IF username = <<>> \/ password = <<>> THEN MsgLoginRequired ELSE <<>>

(* Handlers: what follows the await.  Each gives the world the handler     *)
(* leaves and how it ended: out is "success" or "failed", err the error    *)
(* caught, escaped whether an error left the handler.                      *)

Ended(w, out, err, escaped) ==
    [w |-> w, out |-> out, err |-> err, escaped |-> escaped]

ErrorText(err, fallback) == IF err.message = <<>> THEN fallback ELSE err.message

\* HandlerCatch without the finally clause.
HandlerCatchNoFinally(w, f, tag, err, fallback) ==
    LET args == <<Arg(<<tag>>, TRUE), ErrArg(err)>>
        logged == Console(w, "error", args)
    IN  IF ConsoleThrows(args)
        THEN Ended(logged, "failed", err, TRUE)
        ELSE Ended(ShowError(logged, ErrorText(err, fallback)),
                   "failed", err, FALSE)

\* HandlerCatch with showError called before console.error.
HandlerCatchMirrorLast(w, f, tag, err, fallback) ==
    LET args == <<Arg(<<tag>>, TRUE), ErrArg(err)>>
        shown == ShowError(w, ErrorText(err, fallback))
    IN  Ended(SetButtonLoading(Console(shown, "error", args),
                               f, FALSE, IdleLabel(f)),
              "failed", err, ConsoleThrows(args))

\* catch (err) { console.error(tag, err); showError(...) } finally { ... }
HandlerCatch(w, f, tag, err, fallback) ==
    LET args == <<Arg(<<tag>>, TRUE), ErrArg(err)>>
        logged == Console(w, "error", args)
    IN  IF ConsoleThrows(args)
        THEN Ended(SetButtonLoading(logged, f, FALSE, IdleLabel(f)),
                   "failed", err, TRUE)
        ELSE Ended(SetButtonLoading(ShowError(logged, ErrorText(err, fallback)),
                                    f, FALSE, IdleLabel(f)),
                   "failed", err, FALSE)

SignupCatch(w, err) ==
    HandlerCatch(w, "signup", "Signup Error:", err, MsgRegisterFailed)

LoginCatch(w, err) ==
    HandlerCatch(w, "login", "Login Error:", err, MsgLoginFailed)

\* SignupAfterFetch without the switch back to the login form.
SignupAfterFetchNoSwitch(w, r) ==
    IF r.kind = "error"
    THEN SignupCatch(w, r.err)
    ELSE Ended(SetButtonLoading(ShowSuccess(w, MsgRegistered),
                                "signup", FALSE, IdleLabel("signup")),
               "success", NoErr, FALSE)

\* The signup handler once safeFetch has settled with result r.
SignupAfterFetch(w, r) ==
    IF r.kind = "error"
    THEN SignupCatch(w, r.err)
    ELSE LET shown == ShowSuccess(w, MsgRegistered)
             back == [shown EXCEPT !.container = FALSE]
         IN  Ended(SetButtonLoading(back, "signup", FALSE, IdleLabel("signup")),
                   "success", NoErr, FALSE)

\* LoginAfterFetch without the check of the token.
LoginAfterFetchNoTokenCheck(w, r, username) ==
    IF r.kind = "error"
    THEN LoginCatch(w, r.err)
    ELSE IF r.value.kind = "null"
    THEN LoginCatch(w, Err("TypeError", NullReadMsg("token")))
    ELSE LET stored == [w EXCEPT !.storage =
                            [todo_token |-> r.value.token,
                             todo_username |-> username]]
             shown == ShowSuccess(stored, MsgLoggedIn)
             timed == SetTimeout(shown, "nav", "login", NavDelay)
         IN  Ended(SetButtonLoading(timed, "login", FALSE, IdleLabel("login")),
                   "success", NoErr, FALSE)

\* LoginAfterFetch with the two setItem calls made before the token check.
LoginAfterFetchStoreFirst(w, r, username) ==
    IF r.kind = "error"
    THEN LoginCatch(w, r.err)
    ELSE IF r.value.kind = "null"
    THEN LoginCatch(w, Err("TypeError", NullReadMsg("token")))
    ELSE LET stored == [w EXCEPT !.storage =
                            [todo_token |-> r.value.token,
                             todo_username |-> username]]
         IN  IF ~Truthy(r.value.token)
             THEN LoginCatch(stored, Err("Error", MsgNoToken))
             ELSE LET shown == ShowSuccess(stored, MsgLoggedIn)
                      timed == SetTimeout(shown, "nav", "login", NavDelay)
                  IN  Ended(SetButtonLoading(timed, "login", FALSE,
                                             IdleLabel("login")),
                            "success", NoErr, FALSE)

\* The login handler once safeFetch has settled with result r.
LoginAfterFetch(w, r, username) ==
    IF r.kind = "error"
    THEN LoginCatch(w, r.err)
    ELSE IF r.value.kind = "null"
    THEN LoginCatch(w, Err("TypeError", NullReadMsg("token")))
    ELSE IF ~Truthy(r.value.token)
    THEN LoginCatch(w, Err("Error", MsgNoToken))
    ELSE LET stored == [w EXCEPT !.storage =
                            [todo_token |-> r.value.token,
                             todo_username |-> username]]
             shown == ShowSuccess(stored, MsgLoggedIn)
             timed == SetTimeout(shown, "nav", "login", NavDelay)
         IN  Ended(SetButtonLoading(timed, "login", FALSE, IdleLabel("login")),
                   "success", NoErr, FALSE)

AfterFetch(w, f, r, username) ==
    IF f = "signup" THEN SignupAfterFetch(w, r) ELSE LoginAfterFetch(w, r, username)

-----------------------------------------------------------------------------
(* Inputs *)

\* Passwords: five characters; five characters of which one is outside the
\* basic plane, so six code units.
P5 == <<"p", "p", "p", "p", "p">>
E1P4 == <<"E", "p", "p", "p", "p">>

Fields(username, email, password) ==
    [username |-> username, email |-> email, password |-> password]

SignupInputs ==
    { Fields(<<" ">>, <<"e">>, E1P4),
      Fields(<<"a">>, <<"U+00A0">>, E1P4),
      Fields(<<"a">>, <<"e">>, <<>>),
      Fields(<<"a">>, <<"e">>, P5),
      Fields(<<"\t", "a">>, <<"e", " ">>, E1P4) }

LoginInputs ==
    { Fields(<<"\t">>, <<>>, <<"p">>),
      Fields(<<"a">>, <<>>, <<>>),
      Fields(<<"\t", "a", " ">>, <<>>, <<" ">>) }

\* What a server answers: a status, then a body.
Response(status, body) == [status |-> status, body |-> body]

Responses ==
    { Response(200, Body("invalid", <<>>, <<>>, <<>>)),
      Response(200, Body("null", <<>>, <<>>, <<>>)),
      Response(200, Body("prim", <<>>, <<>>, <<>>)),
      Response(200, Body("obj", <<>>, <<>>, <<>>)),
      Response(200, Body("obj", <<>>, <<>>, <<"">>)),
      Response(200, Body("obj", <<>>, <<>>, <<"abc">>)),
      Response(404, Body("invalid", <<>>, <<>>, <<>>)),
      Response(404, Body("null", <<>>, <<>>, <<>>)),
      Response(404, Body("prim", <<>>, <<>>, <<>>)),
      Response(404, Body("obj", <<>>, <<>>, <<>>)),
      Response(404, Body("obj", <<"M">>, <<"E">>, <<>>)),
      Response(404, Body("obj", <<"">>, <<"E">>, <<>>)),
      Response(500, Body("obj", <<>>, <<"E">>, <<>>)),
      Response(500, Body("obj", <<>>, <<>>, <<"abc">>)) }

Statuses == {r.status : r \in Responses}
BodiesOf(status) == {r.body : r \in {x \in Responses : x.status = status}}

ConsoleLevels == {"log", "warn", "error"}
ConsoleArgs ==
    { <<Arg(<<"a">>, TRUE), Arg(<<"b">>, TRUE)>>,
      <<Arg(<<"Symbol(s)">>, FALSE)>> }

-----------------------------------------------------------------------------
(* State *)

\* A handler's position: pc is "idle" (no run of it is suspended), "fetch"
\* (awaiting fetch) or "json" (awaiting res.json()); fields are the field
\* values the run read, timer the id of the call's timeout timer, status
\* the status fetch resolved with, late whether the timeout delay has passed.
Handler(pc, fields, timer) ==
    [pc |-> pc, fields |-> fields, timer |-> timer, status |-> 0,
     late |-> FALSE]

NoFields == Fields(<<>>, <<>>, <<>>)
AtRest == Handler("idle", NoFields, 0)

\* A handler run that has ended: out is "rejected" (validation failed),
\* "success" or "failed"; sf is what safeFetch settled with.
Run(form, out, hd, body, sf, err, escaped, aborted) ==
    [form |-> form, out |-> out, fields |-> hd.fields, status |-> hd.status,
     late |-> hd.late, body |-> body, sf |-> sf, err |-> err,
     escaped |-> escaped, aborted |-> aborted]

NoRun == Run("none", "none", AtRest, NoBody, NoResult, NoErr, FALSE, FALSE)

Init ==
    /\ elPresent \in BOOLEAN
    /\ el = [textContent |-> <<>>, className |-> "message", display |-> "none"]
    /\ showT = 0
    /\ timers = {}
    /\ inShowMessage = FALSE
    /\ consoleCalls = 0
    /\ origLogs = 0
    /\ btn = [f \in Forms |-> [disabled |-> FALSE, label |-> IdleLabel(f)]]
    /\ container = FALSE
    /\ storage = [todo_token |-> <<>>, todo_username |-> <<>>]
    /\ navigated = FALSE
    /\ h = [f \in Forms |-> AtRest]
    /\ last = NoRun
    /\ events = 0
    /\ submits = 0
    /\ netCalls = 0
    /\ inFlight = [f \in Forms |-> 0]

-----------------------------------------------------------------------------
(* The form toggle *)

ClickRegister ==
    /\ ~navigated
    /\ events < MaxEvents
    /\ events' = events + 1
    /\ container' = TRUE
    /\ UNCHANGED <<elPresent, el, showT, timers, inShowMessage, consoleCalls,
                   origLogs, btn, storage, navigated, h, last, submits, netCalls,
                   inFlight>>

ClickLogin ==
    /\ ~navigated
    /\ events < MaxEvents
    /\ events' = events + 1
    /\ container' = FALSE
    /\ UNCHANGED <<elPresent, el, showT, timers, inShowMessage, consoleCalls,
                   origLogs, btn, storage, navigated, h, last, submits, netCalls,
                   inFlight>>

(* A console call made by any script of the page *)

ConsoleCall(level, args) ==
    /\ ~navigated
    /\ events < MaxEvents
    /\ events' = events + 1
    /\ Commit(Console(World, level, args))
    /\ UNCHANGED <<elPresent, navigated, h, last, submits, netCalls,
                   inFlight>>

-----------------------------------------------------------------------------
(* Submissions.  The browser dispatches no submit event through a disabled *)
(* submit button, which is the only guard the handlers rely on.            *)

\* The handler up to its await: validation, the busy button, and safeFetch
\* up to its await of fetch (the controller, the timeout timer, the request).
\* invalid is the validation message, <<>> when the fields pass.
Submit(f, fields, invalid) ==
    /\ ~navigated
    /\ events < MaxEvents
    /\ ~btn[f].disabled
    /\ events' = events + 1
    /\ submits' = submits + 1
    /\ IF invalid # <<>>
       THEN /\ Commit(ShowError(World, invalid))
            /\ h' = h
            /\ last' = Run(f, "rejected", Handler("idle", fields, 0), NoBody,
                           NoResult, NoErr, FALSE, FALSE)
            /\ netCalls' = netCalls
            /\ inFlight' = inFlight
       ELSE LET busy == SetButtonLoading(World, f, TRUE, IdleLabel(f))
            IN  /\ Commit(SetTimeout(busy, "abort", f, FetchTimeout))
                /\ h' = [h EXCEPT ![f] = Handler("fetch", fields, NextId(busy))]
                /\ last' = last
                /\ netCalls' = netCalls + 1
                /\ inFlight' = [inFlight EXCEPT ![f] = @ + 1]
    /\ UNCHANGED <<elPresent, navigated>>

SubmitSignup(fields) ==
    Submit("signup", fields,
           ValidateSignup(Trim(fields.username), Trim(fields.email),
                          fields.password))

SubmitLogin(fields) ==
    Submit("login", fields,
           ValidateLogin(Trim(fields.username), fields.password))

\* safeFetch settles with r and the handler runs to its end.
Settle(w, f, hd, r, body, aborted) ==
    \E end \in {AfterFetch(w, f, r, Trim(hd.fields.username))} :
        /\ Commit(end.w)
        /\ h' = [h EXCEPT ![f] = AtRest]
        /\ last' = Run(f, end.out, hd, body, r, end.err, end.escaped, aborted)
        /\ inFlight' = [inFlight EXCEPT ![f] = @ - 1]

\* fetch resolves with the response's status and headers: the timeout timer
\* is cleared and the reading of the body begins.
FetchResolve(f, status) ==
    /\ ~navigated
    /\ h[f].pc = "fetch"
    /\ Commit(ClearTimeout(World, h[f].timer))
    /\ h' = [h EXCEPT ![f].pc = "json", ![f].status = status]
    /\ UNCHANGED <<elPresent, navigated, last, events, submits, netCalls,
                   inFlight>>

\* fetch rejects: the network failed.
FetchReject(f) ==
    /\ ~navigated
    /\ h[f].pc = "fetch"
    /\ Settle(World, f, h[f],
              SafeFetchRejected(Err("TypeError", MsgFailedToFetch)),
              NoBody, FALSE)
    /\ UNCHANGED <<elPresent, navigated, events, submits, netCalls>>

\* res.json() settles: the body has arrived and parsed, or failed to.
BodyResolve(f, body) ==
    /\ ~navigated
    /\ h[f].pc = "json"
    /\ Settle(World, f, h[f], SafeFetchBody(h[f].status, body), body, FALSE)
    /\ UNCHANGED <<elPresent, navigated, events, submits, netCalls>>

\* The timeout delay passes while the body is still being read.  The timer
\* was cleared when fetch resolved, so nothing runs.
TimeoutElapses(f) ==
    /\ ~navigated
    /\ h[f].pc = "json"
    /\ ~h[f].late
    /\ h' = [h EXCEPT ![f].late = TRUE]
    /\ UNCHANGED <<elPresent, el, showT, timers, inShowMessage, consoleCalls,
                   origLogs, btn, container, storage, navigated, last,
                   events, submits, netCalls,
                   inFlight>>

-----------------------------------------------------------------------------
(* Timers *)

\* () => (el.style.display = "none")
HideTimerFires(t) ==
    /\ ~navigated
    /\ t \in timers /\ t.kind = "hide"
    /\ timers' = timers \ {t}
    /\ el' = [el EXCEPT !.display = "none"]
    /\ UNCHANGED <<elPresent, showT, inShowMessage, consoleCalls, origLogs,
                   btn, container, storage, navigated, h, last, events,
                   submits, netCalls,
                   inFlight>>

\* () => controller.abort().  When the call's fetch is still pending it
\* rejects with an AbortError; on a call that has ended nothing follows.
AbortTimerFires(t) ==
    /\ ~navigated
    /\ t \in timers /\ t.kind = "abort"
    /\ LET f == t.form
           w == [World EXCEPT !.timers = @ \ {t}]
       IN  IF h[f].timer = t.id /\ h[f].pc = "fetch"
           THEN Settle(w, f, [h[f] EXCEPT !.late = TRUE],
                       SafeFetchRejected(Err("AbortError", MsgAborted)),
                       NoBody, TRUE)
           ELSE Commit(w) /\ UNCHANGED <<h, last, inFlight>>
    /\ UNCHANGED <<elPresent, navigated, events, submits, netCalls>>

\* () => (window.location.href = "app.html"): the page is left.
NavTimerFires(t) ==
    /\ ~navigated
    /\ t \in timers /\ t.kind = "nav"
    /\ timers' = timers \ {t}
    /\ navigated' = TRUE
    /\ UNCHANGED <<elPresent, el, showT, inShowMessage, consoleCalls,
                   origLogs, btn, container, storage, h, last, events,
                   submits, netCalls,
                   inFlight>>

-----------------------------------------------------------------------------

Next ==
    \/ ClickRegister
    \/ ClickLogin
    \/ \E level \in ConsoleLevels, args \in ConsoleArgs : ConsoleCall(level, args)
    \/ \E fields \in SignupInputs : SubmitSignup(fields)
    \/ \E fields \in LoginInputs : SubmitLogin(fields)
    \/ \E f \in Forms, status \in Statuses : FetchResolve(f, status)
    \/ \E f \in Forms : FetchReject(f)
    \/ \E f \in Forms : \E body \in BodiesOf(h[f].status) : BodyResolve(f, body)
    \/ \E f \in Forms : TimeoutElapses(f)
    \/ \E t \in timers : HideTimerFires(t)
    \/ \E t \in timers : AbortTimerFires(t)
    \/ \E t \in timers : NavTimerFires(t)

Spec == Init /\ [][Next]_vars

\* The event loop runs the callback of a hide-timer that stays pending.
HideTimersFire == WF_vars(\E t \in timers : HideTimerFires(t))

\* The event loop runs the callback of every timer that stays pending.
\* Nothing obliges the server to answer, or to finish a body it has begun.
TimersFire ==
    /\ HideTimersFire
    /\ WF_vars(\E t \in timers : AbortTimerFires(t))
    /\ WF_vars(\E t \in timers : NavTimerFires(t))

FairSpec == Spec /\ TimersFire

\* The runs in which the hide-timers are the only timers sure to fire.
HideFairSpec == Spec /\ HideTimersFire

-----------------------------------------------------------------------------
(* Properties *)

HideTimers == {t \in timers : t.kind = "hide"}
AbortTimers == {t \in timers : t.kind = "abort"}
NavTimers == {t \in timers : t.kind = "nav"}

\* What the status element is after showMessage(message, type) has run.
Shown(message, type) ==
    [textContent |-> message, className |-> ClassName(type), display |-> "block"]

\* The step is a submission to the signup handler: it is accepted (the
\* handler goes on to await fetch) or rejected by the validation.
SignupAccepted == h["signup"].pc = "idle" /\ h'["signup"].pc = "fetch"

SignupRejected ==
    /\ netCalls' = netCalls
    /\ last'.form = "signup"
    /\ last'.out = "rejected"

SignupSubmitted == submits' = submits + 1 /\ (SignupAccepted \/ SignupRejected)

\* The field values of the submission made by the step.
SubmittedFields == IF SignupAccepted THEN h'["signup"].fields ELSE last'.fields

AnyEmpty(fl) ==
    Trim(fl.username) = <<>> \/ Trim(fl.email) = <<>> \/ fl.password = <<>>

\* The signup handler, given invalid fields, issues no request and leaves
\* the button and the handler as they were.
RejectedLocally ==
    /\ netCalls' = netCalls
    /\ btn' = btn
    /\ h' = h
    /\ AbortTimers' = AbortTimers

ValidationShown(fl) ==
    el' = Shown(IF AnyEmpty(fl) THEN MsgAllFields ELSE MsgPasswordShort, "error")

\* C1 as stated: every signup submission with an empty trimmed username,
\* trimmed email or password, or a password of fewer than 6 characters,
\* issues no request, never makes the button busy and shows a validation
\* message of kind error.
C1_Original ==
    [][(SignupSubmitted
           /\ (AnyEmpty(SubmittedFields) \/ Len(SubmittedFields.password) < 6))
       => (RejectedLocally /\ ValidationShown(SubmittedFields))]_vars

\* C1, amended: every signup submission with an empty trimmed username,
\* trimmed email or password, or a password whose length in UTF-16 code
\* units is under 6, issues no request and never makes the button busy; when
\* the status element exists, a validation message of kind error is shown.
C1_SignupRejectedLocally ==
    [][(SignupSubmitted
           /\ (AnyEmpty(SubmittedFields)
                  \/ JsLength(SubmittedFields.password) < 6))
       => (RejectedLocally
              /\ (elPresent => ValidationShown(SubmittedFields)))]_vars

\* C1's case: a signup with a five-character password has been rejected, the
\* message is on display and no request has been made.
C1_Witness ==
    /\ last.form = "signup" /\ last.out = "rejected"
    /\ last.fields.password = P5
    /\ el = Shown(MsgPasswordShort, "error")
    /\ netCalls = 0

\* A safeFetch call has settled, and the handler run with it.
Settled == last.sf.kind # "none"

TimedOutError == Thrown(Err("Error", MsgTimedOut))

\* C2 as stated: a safeFetch call whose timeout elapsed before the response
\* had been received and parsed was aborted and failed with the timed-out
\* error, never with another error and never with a value.
C2_TimeoutRace ==
    (Settled /\ last.late) => (last.aborted /\ last.sf = TimedOutError)

\* C3: a response whose body does not parse as JSON makes safeFetch fail
\* with "Invalid server response", whatever the status.
C3_InvalidBody ==
    (Settled /\ last.body.kind = "invalid")
        => last.sf = Thrown(Err("Error", MsgInvalidResponse))

\* C3's case: a 404 response with an unparseable body has been handled.
C3_Witness ==
    /\ Settled /\ last.body.kind = "invalid" /\ last.status = 404
    /\ last.out = "failed"

\* The message C4 states for a JSON body: message if present, else error if
\* present, else "HTTP {status}".
ClaimedHttpMessage(status, body) ==
    IF body.message # <<>> THEN body.message
    ELSE IF body.error # <<>> THEN body.error
    ELSE HttpMsg(status)

IsJson(body) == body.kind \in {"null", "prim", "obj"}

\* C4 as stated: a non-2xx response with a JSON body, of any value, makes
\* safeFetch fail with the body's message, else its error, else
\* "HTTP {status}", and with nothing else.
C4_HttpError ==
    (Settled /\ IsJson(last.body) /\ ~Ok(last.status))
        => last.sf = Thrown(Err("Error", ClaimedHttpMessage(last.status, last.body)))

\* The step ends a run of the login handler that awaited safeFetch.
LoginSettles == h["login"].pc # "idle" /\ h'["login"].pc = "idle"

\* The run the step ends had safeFetch return a body (2xx, JSON).
LoginReturned == LoginSettles /\ last'.form = "login" /\ last'.sf.kind = "value"

HasToken(body) == body.token # <<>> /\ body.token # <<"">>

\* C5 as stated: a login whose request succeeds with a body that lacks a
\* token ends in failure with the missing-token error, shown when the status
\* element exists; storage is left as it was and no navigation is scheduled.
C5_MissingToken ==
    [][(LoginReturned /\ ~HasToken(last'.body))
       => /\ last'.out = "failed"
          /\ last'.err = Err("Error", MsgNoToken)
          /\ (elPresent => el' = Shown(MsgNoToken, "error"))
          /\ storage' = storage
          /\ NavTimers' = NavTimers]_vars

\* What a successful login leaves: the token and the trimmed username in
\* storage, a navigation timer of 1200 ms, the handler ended in success.
LoginStored ==
    /\ last'.out = "success"
    /\ storage' = [todo_token |-> last'.body.token,
                   todo_username |-> Trim(last'.fields.username)]
    /\ \E t \in NavTimers' \ NavTimers : t.delay = 1200

\* Navigation is scheduled by no other step, and implies a stored token.
NavigationOnlyByLogin ==
    [][(NavTimers' \ NavTimers # {})
       => (LoginReturned /\ HasToken(last'.body))]_vars

NavigationImpliesToken ==
    [](((NavTimers # {}) \/ navigated) => Truthy(storage.todo_token))

\* C6 as stated: a login answered 2xx with a token T leaves todo_token = T
\* and todo_username = the submitted username in storage, a success message
\* shown and a navigation scheduled 1200 ms later; no other path schedules a
\* navigation, so navigation implies a stored token.
C6_Original ==
    /\ [][(LoginReturned /\ HasToken(last'.body))
          => (LoginStored /\ el' = Shown(MsgLoggedIn, "success"))]_vars
    /\ NavigationOnlyByLogin
    /\ NavigationImpliesToken

\* C6, amended: as stated, with the username stored being the trimmed one
\* and the success message shown when the status element exists.
C6_LoginSuccess ==
    /\ [][(LoginReturned /\ HasToken(last'.body))
          => (LoginStored
                 /\ (elPresent => el' = Shown(MsgLoggedIn, "success")))]_vars
    /\ NavigationOnlyByLogin
    /\ NavigationImpliesToken

\* C6's case: a login as " a " answered with the token "abc" has ended, the
\* token and "a" are stored and the navigation is pending.
C6_Witness ==
    /\ last.form = "login" /\ last.out = "success"
    /\ last.fields.username = <<"\t", "a", " ">>
    /\ storage = [todo_token |-> <<"abc">>, todo_username |-> <<"a">>]
    /\ NavTimers # {}
    /\ el = Shown(MsgLoggedIn, "success")

IdleButton(f) == [disabled |-> FALSE, label |-> IdleLabel(f)]

\* C7: whenever no run of a form's handler is under way, having ended on any
\* path, the form's button is enabled and carries its idle label.
C7_ButtonRestored ==
    \A f \in Forms : h[f].pc = "idle" => btn[f] = IdleButton(f)

\* C7's case: a run that made its button busy has ended in failure on the
\* timeout, and the button is idle again.
C7_Witness ==
    /\ last.out = "failed" /\ last.sf = TimedOutError
    /\ h[last.form].pc = "idle"
    /\ btn[last.form] = IdleButton(last.form)

\* C8: at most one hide-timer is pending, and it is the one showMessage
\* scheduled last (the element being one, at most one message is visible).
C8_OneHideTimer ==
    /\ Cardinality(HideTimers) <= 1
    /\ \A t \in HideTimers : t.id = showT

\* C8's case: a failed run has called showMessage twice (the console mirror,
\* then showError) and one hide-timer is pending.
C8_Witness ==
    /\ elPresent
    /\ last.out = "failed"
    /\ el = Shown(last.err.message, "error")
    /\ Cardinality(HideTimers) = 1

\* C9: without the status element showMessage does nothing: the element's
\* model, showMessage._t and the timers stay as they were, and a rejected
\* submission, which only calls showMessage, changes nothing of the page.
C9_SilentNoOp ==
    /\ [](~elPresent =>
             /\ el = [textContent |-> <<>>, className |-> "message",
                      display |-> "none"]
             /\ showT = 0
             /\ HideTimers = {})
    /\ [][(~elPresent /\ submits' = submits + 1 /\ netCalls' = netCalls)
          => UNCHANGED <<el, showT, timers, inShowMessage, btn, container,
                         storage, h, consoleCalls, origLogs>>]_vars

\* C9's case: without the element a run has failed, calling showMessage
\* twice, and has ended with its button idle; the timeout timer it left
\* pending has not been cancelled.
C9_Witness ==
    /\ ~elPresent
    /\ last.out = "failed"
    /\ h[last.form].pc = "idle"
    /\ btn[last.form] = IdleButton(last.form)
    /\ AbortTimers # {}

\* C10 as stated: every console call performs the original logging exactly
\* once, and the guard flag is clear whenever no mirrored call is active.
C10_ConsoleMirror == origLogs = consoleCalls /\ ~inShowMessage

\* The step ends a run of form f's handler that awaited safeFetch.
Settles(f) == h[f].pc # "idle" /\ h'[f].pc = "idle" /\ last'.form = f

\* The step is a submission that the validation rejects.
Rejects(f) ==
    /\ submits' = submits + 1
    /\ netCalls' = netCalls
    /\ last'.form = f

GenericFallback(f) ==
    IF f = "signup" THEN MsgRegisterFailed ELSE MsgLoginFailed

OwnMessage(f, err) ==
    IF err.message = <<>> THEN GenericFallback(f) ELSE err.message

ValidationMessage(f, fl) ==
    IF f = "login" THEN MsgLoginRequired
    ELSE IF AnyEmpty(fl) THEN MsgAllFields ELSE MsgPasswordShort

\* A failed run leaves no error uncaught and the error's own message on
\* display; a rejected submission leaves its validation message on display.
FailureSurfaced(f) ==
    /\ (Settles(f) /\ last'.out = "failed")
          => /\ ~last'.escaped
             /\ el' = Shown(OwnMessage(f, last'.err), "error")
    /\ Rejects(f) => el' = Shown(ValidationMessage(f, last'.fields), "error")

FailureHandled(f) ==
    /\ (Settles(f) /\ last'.out = "failed")
          => /\ ~last'.escaped
             /\ elPresent => el' = Shown(OwnMessage(f, last'.err), "error")
    /\ (Rejects(f) /\ elPresent)
          => el' = Shown(ValidationMessage(f, last'.fields), "error")

\* C11 as stated: no error escapes a handler, and a failed handler leaves a
\* message of kind error on display that carries the error's own message
\* (or the generic fallback), not the text mirrored from console.error.
C11_Original == [][\A f \in Forms : FailureSurfaced(f)]_vars

\* C11, amended: no error escapes a handler, and when the status element
\* exists a failed handler leaves a message of kind error on display that
\* carries the error's own message, not the mirrored text.
C11_ErrorsSurfaced == [][\A f \in Forms : FailureHandled(f)]_vars

\* C11's case: a login answered 200 without a token has failed; console.error
\* has been mirrored and logged, and the missing-token message is on display.
C11_Witness ==
    /\ last.form = "login" /\ last.out = "failed"
    /\ last.err = Err("Error", MsgNoToken)
    /\ consoleCalls = 1 /\ origLogs = 1
    /\ el = Shown(MsgNoToken, "error")

\* The run the step ends had safeFetch return a body to the signup handler.
SignupReturned == Settles("signup") /\ last'.sf.kind = "value"

SignupDone ==
    /\ last'.out = "success"
    /\ ~container'
    /\ btn'["signup"] = IdleButton("signup")
    /\ storage' = storage

\* C12 as stated: a signup answered 2xx with any JSON body shows the
\* registration-success message, switches back to the login form, returns
\* the button to idle and writes nothing to storage.
C12_Original ==
    [][SignupReturned
       => (SignupDone /\ el' = Shown(MsgRegistered, "success"))]_vars

\* C12, amended: as stated, the message being shown when the status element
\* exists.
C12_SignupSuccess ==
    [][SignupReturned
       => (SignupDone
              /\ (elPresent => el' = Shown(MsgRegistered, "success")))]_vars

\* C12's case: from the signup form (container active) a signup answered 200
\* with the body null has succeeded and the login form is back.
C12_Witness ==
    /\ last.form = "signup" /\ last.out = "success"
    /\ last.body.kind = "null"
    /\ events = 2
    /\ ~container
    /\ el = Shown(MsgRegistered, "success")

\* C13 as stated: timers firing, every submission that makes its button busy
\* sees it idle again (or the page left), whatever the server does.
C13_EventuallyIdle ==
    \A f \in Forms : btn[f].disabled ~> (~btn[f].disabled \/ navigated)

\* The fields pass the validation of form f, as spec 4.4 and 4.5 state it.
PassesValidation(f, fl) ==
    IF f = "signup"
    THEN ~AnyEmpty(fl) /\ JsLength(fl.password) >= 6
    ELSE Trim(fl.username) # <<>> /\ fl.password # <<>>

\* Idle -> Submitting: by a submission that passed validation, with one
\* request issued and the button made busy.
EntersSubmitting(f) ==
    (h[f].pc = "idle" /\ h'[f].pc # "idle")
        => /\ h'[f].pc = "fetch"
           /\ submits' = submits + 1
           /\ netCalls' = netCalls + 1
           /\ PassesValidation(f, h'[f].fields)
           /\ btn'[f].disabled

\* Submitting goes on awaiting (fetch, then the body) or ends.
StaysOrEnds(f) ==
    /\ (h[f].pc = "fetch" => h'[f].pc \in {"fetch", "json", "idle"})
    /\ (h[f].pc = "json" => h'[f].pc \in {"json", "idle"})

\* Submitting -> Success | Failed -> Idle: one of the two, with no request
\* issued again; a success logs no error, a failure leaves storage, the form
\* shown and the navigation as they were.
EndsOnce(f) ==
    Settles(f)
        => /\ netCalls' = netCalls
           /\ last'.out \in {"success", "failed"}
           /\ last'.out = "success" => consoleCalls' = consoleCalls
           /\ last'.out = "failed"
                 => /\ consoleCalls' = consoleCalls + 1
                    /\ storage' = storage
                    /\ container' = container
                    /\ NavTimers' = NavTimers

\* Idle -> Validating -> Idle: the fields fail the validation and the
\* handler does not enter Submitting.
ValidationFails(f) ==
    Rejects(f) => (~PassesValidation(f, last'.fields) /\ h' = h)

\* A request is issued only by an accepted submission, one at a time.
RequestPerSubmission ==
    netCalls' # netCalls
        => /\ netCalls' = netCalls + 1
           /\ \E f \in Forms : h[f].pc = "idle" /\ h'[f].pc = "fetch"

\* C14: each submission goes Idle -> Validating -> Submitting -> (Success |
\* Failed) -> Idle, or Idle -> Validating -> Idle on a validation failure;
\* one request per submission that passes validation, none after a failure
\* or timeout, and each such submission ends in exactly one of the two.
C14_StateMachine ==
    [][/\ RequestPerSubmission
       /\ \A f \in Forms :
             /\ EntersSubmitting(f)
             /\ StaysOrEnds(f)
             /\ EndsOnce(f)
             /\ ValidationFails(f)]_vars

\* C14's case: of two submissions one was rejected and one passed, issued
\* its one request and ended in failure on the timeout.
C14_Witness ==
    /\ submits = 2 /\ netCalls = 1
    /\ last.out = "failed" /\ last.sf = TimedOutError
    /\ \A f \in Forms : h[f].pc = "idle"

\* C15: storage holds the keys todo_token and todo_username only, and
\* changes only when a login answered 2xx with a token ends, to that token
\* and the trimmed username; signups, validation failures and failed logins
\* leave it as it was, and neither password nor email is stored.
C15_StorageWrites ==
    /\ [](DOMAIN storage = {"todo_token", "todo_username"})
    /\ [][storage' # storage
          => /\ LoginReturned
             /\ HasToken(last'.body)
             /\ storage' = [todo_token |-> last'.body.token,
                            todo_username |-> Trim(last'.fields.username)]]_vars

\* C15's case: a login has stored the token "abc", and a signup that failed
\* afterwards has left it in place.
C15_Witness ==
    /\ storage = [todo_token |-> <<"abc">>, todo_username |-> <<"a">>]
    /\ last.form = "signup" /\ last.out = "failed"

\* The submit button of form f while a request of the form is in flight.
BusyButton == [disabled |-> TRUE, label |-> LoadingLabel]

\* C16: under every interleaving of signup and login submissions a form's
\* button is busy exactly while a request of that form is in flight; a
\* handler that ends leaves the other form's button as it was; and at most
\* one request per form, two in all, is in flight.
C16_BusyWhileInFlight ==
    /\ [](\A f \in Forms :
             /\ inFlight[f] \in {0, 1}
             /\ inFlight[f] = 1 <=> h[f].pc # "idle"
             /\ btn[f] = IF inFlight[f] = 1 THEN BusyButton ELSE IdleButton(f))
    /\ [](inFlight["signup"] + inFlight["login"] <= 2)
    /\ [][\A f \in Forms :
             Settles(f) => \A g \in Forms \ {f} : btn'[g] = btn[g]]_vars

\* C16's case: both forms had a request in flight, and the login handler
\* has ended while the signup request is still awaited.
C16_Witness ==
    /\ last.form = "login" /\ Settled
    /\ inFlight["login"] = 0 /\ btn["login"] = IdleButton("login")
    /\ inFlight["signup"] = 1 /\ btn["signup"] = BusyButton

\* The timeout timer t belongs to a safeFetch call that has not ended.
OfCallInFlight(t) == h[t.form].pc # "idle" /\ h[t.form].timer = t.id

\* The step runs the callback of the timeout timer t: controller.abort().
\* (The other way a timeout timer leaves the timers is clearTimeout, as
\* fetch resolves.)
AbortIssued(t) ==
    /\ t \in AbortTimers /\ t \notin timers'
    /\ ~(h[t.form].pc = "fetch" /\ h'[t.form].pc = "json")

\* C17: an abort is issued only by the timeout timer of a call whose request
\* is in flight; once a safeFetch call has ended, with a value or with any
\* error, a network failure included, its timeout timer is not pending and
\* no abort is issued for it.
C17_AbortOnlyInFlight ==
    /\ [](\A t \in AbortTimers : OfCallInFlight(t))
    /\ [][\A t \in AbortTimers :
             AbortIssued(t) => (OfCallInFlight(t) /\ h[t.form].pc = "fetch")]_vars

\* The hide-timer that the showMessage call which set showMessage._t to id
\* has scheduled.
OwnHideTimer(id) == Timer(id, "hide", "none", HideDelay)

\* A visible message has the hide-timer of the call that showed it pending,
\* and no other.
VisibleHasOwnTimer ==
    el.display = "block" => HideTimers = {OwnHideTimer(showT)}

\* A message is hidden only by the callback of its own hide-timer.
HiddenByOwnTimer ==
    (el.display = "block" /\ el'.display = "none")
        => /\ OwnHideTimer(showT) \in timers
           /\ timers' = timers \ {OwnHideTimer(showT)}
           /\ el' = [el EXCEPT !.display = "none"]

\* A newer message comes with a new hide-timer of the full delay, and the
\* hide-timer of the message before it is pending no more.
ReplacedWithNewTimer ==
    showT' # showT
        => /\ el'.display = "block"
           /\ HideTimers' = {OwnHideTimer(showT')}
           /\ OwnHideTimer(showT) \notin timers'

\* C18: a message that has been shown stays visible until its own hide-timer
\* of 5000 ms runs or a newer message replaces it; the hide-timer of an
\* earlier message never hides a later one, whichever of the handlers and
\* the console mirror showed them; and the last message is hidden in the
\* end (or the page is left).
C18_VisibleUntilOwnTimer ==
    /\ []VisibleHasOwnTimer
    /\ [][HiddenByOwnTimer /\ ReplacedWithNewTimer]_vars
    /\ (el.display = "block") ~> (el.display = "none" \/ navigated)

\* C18's case: the console mirror's message of a failed run was replaced by
\* the error's own message, which its hide-timer has hidden since.
C18_Witness ==
    /\ elPresent
    /\ last.out = "failed"
    /\ el = [Shown(last.err.message, "error") EXCEPT !.display = "none"]
    /\ HideTimers = {}

=============================================================================
